---- MODULE Spec2Model ----
(***************************************************************************)
(* WPBot (src/wpbot.py): the number normaliser, the recipient-list and     *)
(* message readers, the command-line entry point and the two batch         *)
(* dispatchers, send_messages_to_recipients (pywhatkit, one browser call   *)
(* per recipient) and send_messages_single_tab (one Selenium session).     *)
(*                                                                         *)
(* A Python str is a sequence of one-character strings.  Python's None is  *)
(* the sequence <<"None">>, whose only element is not a character.         *)
(***************************************************************************)
EXTENDS Integers, Sequences, FiniteSets, TLC

\* ------------------------------------------------------------------ bounds
\* Longest raw number handed to normalize_number.
MaxLen == 4
\* Longest recipient list handed to a dispatcher.
MaxRecipients == 3

\* ----------------------------------------------------------------- strings
None == <<"None">>

\* Characters str.strip() removes from both ends when called with no argument.
Whitespace == {" ", "\t", "\n"}

\* Characters str.isdigit() accepts: the ASCII digits and, as in Python, the
\* other Unicode digits, of which "U+0663" (ARABIC-INDIC DIGIT THREE) stands in.
AsciiDigits == {"0", "1", "2", "3", "4", "5", "6", "7", "8", "9"}
DigitChars == AsciiDigits \cup {"U+0663"}

Max(a, b) == IF a >= b THEN a ELSE b

RECURSIVE lstrip(_)
lstrip(s) ==
    IF s # <<>> /\ Head(s) \in Whitespace THEN lstrip(Tail(s)) ELSE s

RECURSIVE rstrip(_)
rstrip(s) ==
    IF s # <<>> /\ s[Len(s)] \in Whitespace
    THEN rstrip(SubSeq(s, 1, Len(s) - 1))
    ELSE s

\* str.strip()
strip(s) == rstrip(lstrip(s))

\* str.replace(c, ""): every occurrence of the character c removed.
RECURSIVE replace(_, _)
replace(s, c) ==
    IF s = <<>> THEN <<>>
    ELSE IF Head(s) = c THEN replace(Tail(s), c)
    ELSE <<Head(s)>> \o replace(Tail(s), c)

\* str.startswith(p)
startswith(s, p) == Len(s) >= Len(p) /\ SubSeq(s, 1, Len(p)) = p

\* str.isdigit(): at least one character, and every character a digit.
isdigit(s) == s # <<>> /\ \A i \in 1..Len(s) : s[i] \in DigitChars

\* ------------------------------------------------------- country rule table
COUNTRY_CODES ==
    "Turkey" :> [code |-> <<"+", "9", "0">>, patterns |-> << <<"9", "0">>, <<"0", "5">>, <<"5">> >>] @@
    "United States" :> [code |-> <<"+", "1">>, patterns |-> << <<"1">> >>] @@
    "United Kingdom" :> [code |-> <<"+", "4", "4">>, patterns |-> << <<"4", "4">>, <<"0", "7">> >>] @@
    "Germany" :> [code |-> <<"+", "4", "9">>, patterns |-> << <<"4", "9">>, <<"0", "1">> >>] @@
    "France" :> [code |-> <<"+", "3", "3">>, patterns |-> << <<"3", "3">>, <<"0", "6">>, <<"0", "7">> >>] @@
    "Italy" :> [code |-> <<"+", "3", "9">>, patterns |-> << <<"3", "9">>, <<"0", "3">> >>] @@
    "Spain" :> [code |-> <<"+", "3", "4">>, patterns |-> << <<"3", "4">>, <<"0", "6">> >>] @@
    "Netherlands" :> [code |-> <<"+", "3", "1">>, patterns |-> << <<"3", "1">>, <<"0", "6">> >>] @@
    "Belgium" :> [code |-> <<"+", "3", "2">>, patterns |-> << <<"3", "2">>, <<"0", "4">> >>] @@
    "Switzerland" :> [code |-> <<"+", "4", "1">>, patterns |-> << <<"4", "1">>, <<"0", "7">> >>] @@
    "Austria" :> [code |-> <<"+", "4", "3">>, patterns |-> << <<"4", "3">>, <<"0", "6">> >>] @@
    "Poland" :> [code |-> <<"+", "4", "8">>, patterns |-> << <<"4", "8">>, <<"0", "5">> >>] @@
    "Czech Republic" :> [code |-> <<"+", "4", "2", "0">>, patterns |-> << <<"4", "2", "0">>, <<"0", "7">> >>] @@
    "Hungary" :> [code |-> <<"+", "3", "6">>, patterns |-> << <<"3", "6">>, <<"0", "6">> >>] @@
    "Romania" :> [code |-> <<"+", "4", "0">>, patterns |-> << <<"4", "0">>, <<"0", "7">> >>] @@
    "Bulgaria" :> [code |-> <<"+", "3", "5", "9">>, patterns |-> << <<"3", "5", "9">>, <<"0", "8">> >>] @@
    "Greece" :> [code |-> <<"+", "3", "0">>, patterns |-> << <<"3", "0">>, <<"0", "6">> >>] @@
    "Portugal" :> [code |-> <<"+", "3", "5", "1">>, patterns |-> << <<"3", "5", "1">>, <<"0", "9">> >>] @@
    "Sweden" :> [code |-> <<"+", "4", "6">>, patterns |-> << <<"4", "6">>, <<"0", "7">> >>] @@
    "Norway" :> [code |-> <<"+", "4", "7">>, patterns |-> << <<"4", "7">>, <<"0", "4">> >>] @@
    "Denmark" :> [code |-> <<"+", "4", "5">>, patterns |-> << <<"4", "5">>, <<"0", "2">> >>] @@
    "Finland" :> [code |-> <<"+", "3", "5", "8">>, patterns |-> << <<"3", "5", "8">>, <<"0", "4">> >>] @@
    "Russia" :> [code |-> <<"+", "7">>, patterns |-> << <<"7">>, <<"0", "8">> >>] @@
    "China" :> [code |-> <<"+", "8", "6">>, patterns |-> << <<"8", "6">>, <<"0", "1">> >>] @@
    "Japan" :> [code |-> <<"+", "8", "1">>, patterns |-> << <<"8", "1">>, <<"0", "9">> >>] @@
    "South Korea" :> [code |-> <<"+", "8", "2">>, patterns |-> << <<"8", "2">>, <<"0", "1">> >>] @@
    "India" :> [code |-> <<"+", "9", "1">>, patterns |-> << <<"9", "1">>, <<"0", "9">> >>] @@
    "Brazil" :> [code |-> <<"+", "5", "5">>, patterns |-> << <<"5", "5">>, <<"0", "1">> >>] @@
    "Mexico" :> [code |-> <<"+", "5", "2">>, patterns |-> << <<"5", "2">>, <<"0", "4">> >>] @@
    "Argentina" :> [code |-> <<"+", "5", "4">>, patterns |-> << <<"5", "4">>, <<"0", "1">> >>] @@
    "Australia" :> [code |-> <<"+", "6", "1">>, patterns |-> << <<"6", "1">>, <<"0", "4">> >>] @@
    "New Zealand" :> [code |-> <<"+", "6", "4">>, patterns |-> << <<"6", "4">>, <<"0", "2">> >>] @@
    "South Africa" :> [code |-> <<"+", "2", "7">>, patterns |-> << <<"2", "7">>, <<"0", "8">> >>] @@
    "Egypt" :> [code |-> <<"+", "2", "0">>, patterns |-> << <<"2", "0">>, <<"0", "1">> >>] @@
    "Saudi Arabia" :> [code |-> <<"+", "9", "6", "6">>, patterns |-> << <<"9", "6", "6">>, <<"0", "5">> >>] @@
    "UAE" :> [code |-> <<"+", "9", "7", "1">>, patterns |-> << <<"9", "7", "1">>, <<"0", "5">> >>] @@
    "Israel" :> [code |-> <<"+", "9", "7", "2">>, patterns |-> << <<"9", "7", "2">>, <<"0", "5">> >>] @@
    "Iran" :> [code |-> <<"+", "9", "8">>, patterns |-> << <<"9", "8">>, <<"0", "9">> >>] @@
    "Pakistan" :> [code |-> <<"+", "9", "2">>, patterns |-> << <<"9", "2">>, <<"0", "3">> >>] @@
    "Bangladesh" :> [code |-> <<"+", "8", "8", "0">>, patterns |-> << <<"8", "8", "0">>, <<"0", "1">> >>] @@
    "Thailand" :> [code |-> <<"+", "6", "6">>, patterns |-> << <<"6", "6">>, <<"0", "8">> >>] @@
    "Vietnam" :> [code |-> <<"+", "8", "4">>, patterns |-> << <<"8", "4">>, <<"0", "3">> >>] @@
    "Indonesia" :> [code |-> <<"+", "6", "2">>, patterns |-> << <<"6", "2">>, <<"0", "8">> >>] @@
    "Malaysia" :> [code |-> <<"+", "6", "0">>, patterns |-> << <<"6", "0">>, <<"0", "1">> >>] @@
    "Singapore" :> [code |-> <<"+", "6", "5">>, patterns |-> << <<"6", "5">>, <<"0", "8">> >>] @@
    "Philippines" :> [code |-> <<"+", "6", "3">>, patterns |-> << <<"6", "3">>, <<"0", "9">> >>]

\* ------------------------------------------------------------ normalize_number
\* The for loop over the country's patterns: the first pattern that is a prefix
\* of cleaned decides, and None when the list is exhausted.
RECURSIVE scan_patterns(_, _, _)
scan_patterns(cleaned, country_code, patterns) ==
    IF patterns = <<>> THEN None
    ELSE LET pattern == Head(patterns) IN
         IF startswith(cleaned, pattern)
         THEN IF pattern = replace(country_code, "+")
              THEN <<"+">> \o cleaned
              ELSE country_code \o SubSeq(cleaned, Len(pattern) + 1, Len(cleaned))
         ELSE scan_patterns(cleaned, country_code, Tail(patterns))

\* Everything that is not a digit or "+" dropped, not only the separators.
clean_KeepsDigitsOnly(raw_number) ==
    SelectSeq(strip(raw_number), LAMBDA c : c \in DigitChars \cup {"+"})

\* The hyphen left in.
clean_KeepsHyphens(raw_number) ==
    replace(replace(replace(strip(raw_number), " "), "("), ")")

\* strip(), then the four replace() calls: only the space, of all whitespace,
\* is removed from the inside of the string.
clean(raw_number) ==
    replace(replace(replace(replace(strip(raw_number), " "), "-"), "("), ")")

\* The same function with the all-digits test made before the test for a
\* leading "+", so that the "+" branch is never taken.
normalize_number_DigitsFirst(raw_number, country) ==
    IF raw_number = <<>> \/ country \notin DOMAIN COUNTRY_CODES THEN None
    ELSE LET cleaned == clean(raw_number) IN
         IF ~isdigit(cleaned) THEN None
         ELSE scan_patterns(cleaned, COUNTRY_CODES[country].code,
                            COUNTRY_CODES[country].patterns)

normalize_number(raw_number, country) ==
    IF raw_number = <<>> \/ country \notin DOMAIN COUNTRY_CODES THEN None
    ELSE LET country_code == COUNTRY_CODES[country].code
             patterns == COUNTRY_CODES[country].patterns
             cleaned == clean(raw_number)
         IN  IF startswith(cleaned, <<"+">>)
             THEN IF isdigit(replace(cleaned, "+")) THEN cleaned ELSE None
             ELSE IF ~isdigit(cleaned) THEN None
             ELSE scan_patterns(cleaned, country_code, patterns)

\* --------------------------------------------------- read_recipients_from_file
\* The body of the loop over the file's lines (the file exists): the accepted
\* lines, and the lines reported on stderr as invalid.
RECURSIVE read_recipients_from_file(_)
read_recipients_from_file(lines) ==
    IF lines = <<>> THEN [recipients |-> <<>>, skipped |-> <<>>]
    ELSE LET line == strip(Head(lines))
             rest == read_recipients_from_file(Tail(lines))
         IN  IF line = <<>> \/ startswith(line, <<"#">>) THEN rest
             ELSE IF ~(startswith(line, <<"+">>) /\ isdigit(replace(line, "+")))
             THEN [rest EXCEPT !.skipped = <<line>> \o @]
             ELSE [rest EXCEPT !.recipients = <<line>> \o @]

\* ---------------------------------------------------------------- read_message
\* Python truth of a str | None value: None and "" are false.
Truthy(s) == s # None /\ s # <<>>

\* message is a str or None; message_file is a Path (always true) or None;
\* exists and text are what the file system answers for message_file.
\* The result is [raises, value]: the exception raised ("none" when the
\* function returns) and the value returned.
read_message_FilePreferred(message, message_file, exists, text) ==
    IF message_file # None
    THEN IF ~exists THEN [raises |-> "FileNotFoundError", value |-> None]
         ELSE [raises |-> "none", value |-> strip(text)]
    ELSE IF ~Truthy(message) THEN [raises |-> "ValueError", value |-> None]
    ELSE [raises |-> "none", value |-> message]

read_message(message, message_file, exists, text) ==
    IF Truthy(message) /\ message_file # None
    THEN [raises |-> "ValueError", value |-> None]
    ELSE IF message_file # None
    THEN IF ~exists THEN [raises |-> "FileNotFoundError", value |-> None]
         ELSE [raises |-> "none", value |-> strip(text)]
    ELSE IF ~Truthy(message) THEN [raises |-> "ValueError", value |-> None]
    ELSE [raises |-> "none", value |-> message]

\* ----------------------------------------------------------------- pacing
\* time.sleep(max(20, per_send_wait_seconds + 10)) after a pywhatkit send.
MinimumSettleSeconds == 20
SettleMarginSeconds == 10
SettleSeconds_NoMinimum(per_send_wait) == per_send_wait + SettleMarginSeconds

SettleSeconds(per_send_wait) ==
    Max(MinimumSettleSeconds, per_send_wait + SettleMarginSeconds)

\* time.sleep(5) after a failed pywhatkit send.
RecoverSeconds == 5
\* time.sleep(3) and time.sleep(2) in single-tab mode.
SingleTabSettleSeconds == 3
SingleTabRecoverSeconds == 2
\* WebDriverWait(driver, max(30, initial_wait_seconds))
MinimumLoginTimeout == 30
LoginTimeout(initial_wait) == Max(MinimumLoginTimeout, initial_wait)

\* ------------------------------------------------------------------ inputs
\* Canonical numbers a recipient list is drawn from (duplicates allowed).
Phones == {<<"+", "9", "0", "5">>, <<"+", "1", "2">>}

RECURSIVE SeqsUpTo(_, _)
SeqsUpTo(S, n) ==
    IF n = 0 THEN {<<>>}
    ELSE LET shorter == SeqsUpTo(S, n - 1)
         IN  shorter \cup {Append(s, x) : s \in {t \in shorter : Len(t) = n - 1}, x \in S}

RecipientLists == SeqsUpTo(Phones, MaxRecipients)

\* Values of --wait / the GUI's wait box (argparse accepts any int).
Waits == {-15, 5, 10, 40}
\* argparse's default for --wait.
DefaultWait == 40

\* Recipients files main() may find behind --recipients.
RecipientFiles ==
    { <<>>,
      << <<"#", "c", "\n">>, <<"\n">>, <<"+", "1", "2", "\n">>, <<"a", "b", "\n">> >>,
      << <<" ", "+", "9", "0", "5", "\n">>, <<"+", "1", "2", "\n">>,
         <<"+", "9", "0", "5">> >> }

\* Message files main() may find behind --message-file.
MessageFiles == { <<" ", "h", "i", "\n">>, <<"\n">> }

\* argv as argparse hands it to main(): an option not given is None, and
\* wait is DefaultWait when --wait is not given (wait_given tells the two
\* apart, as len(sys.argv) does).  --close-time and --keep-tab-open only
\* travel to pywhatkit and are left out.
Args ==
    {a \in [recipients : {None, <<>>, <<"r">>},
            message : {None, <<>>, <<"h", "i">>},
            message_file : {None, <<>>, <<"m">>},
            wait_given : BOOLEAN,
            wait : Waits \cup {DefaultWait},
            gui : BOOLEAN] : ~a.wait_given => a.wait = DefaultWait}

\* sys.argv with the program name only.
NoArgs == [recipients |-> None, message |-> None, message_file |-> None,
           wait_given |-> FALSE, wait |-> DefaultWait, gui |-> FALSE]

\* Characters raw numbers are built from: "+", digits of Turkey's and Japan's
\* patterns, the separators, a tab, a letter and a non-ASCII digit.
NormChars == {"+", "0", "5", "9", " ", "\t", "-", ")", "a", "U+0663"}
RawNumbers == SeqsUpTo(NormChars, MaxLen)
\* Numbers in the three ways a Turkish mobile number is written: national,
\* with the trunk 0, and with the country code.
ExampleNumbers ==
    { <<"5", "5", "5", "1", "2", "3", "4", "5", "6", "7">>,
      <<"0", "5", "5", "5", "1", "2", "3", "4", "5", "6", "7">>,
      <<"9", "0", "5", "5", "5", "1", "2", "3", "4", "5", "6", "7">> }
\* Country arguments: two names of the table and one that is not in it.
Countries == {"Turkey", "Japan", "Atlantis"}

\* What one send (whatkit.sendwhatmsg_instantly, or driver.get .. send_keys)
\* does: it returns, or raises an Exception because this recipient could not
\* be served ("fail"), or raises an Exception because the browser or the
\* automation channel could not be had at all ("infra").
SendFailures == {"fail", "infra"}

\* --------------------------------------------------------------------- state
VARIABLES
    task,           \* the call modelled: "main", "send_messages_to_recipients",
                    \* "send_messages_single_tab" or "normalize_number"
    pc,             \* the position of that call
    args,           \* main(): the parsed command line
    recipients,     \* the dispatcher's recipients argument
    message,        \* the dispatcher's message argument
    per_send_wait_seconds,      \* send_messages_to_recipients' argument
    initial_wait_seconds,       \* send_messages_single_tab's argument
    SELENIUM_AVAILABLE,         \* module globals set by the optional imports
    WEBDRIVER_MANAGER_AVAILABLE,
    index,          \* the for loop's index (0 before the first iteration)
    sends,          \* history: <<index, phone_number>> of every send started
    inFlight,       \* indices whose send has started and not yet ended
    results,        \* history: how each send ended: "ok", "fail" or "infra"
    outcomes,       \* per recipient: "Sent", or "Failed" (the stderr line)
    sleeps,         \* history: <<index, seconds>> of every completed time.sleep
    session,        \* single-tab: "none", "open" or "failed" (webdriver.Chrome)
    login_waits,    \* single-tab: <<timeout, "ok" | "timeout">> per login wait
    stdout,         \* the report lines printed: "noop", "starting", "done"
    raised,         \* the exception that left the call, or "none"
    raw_number,     \* normalize_number's arguments and its result
    country,
    normalized,
    file_lines,     \* read_recipients_from_file: the lines of the file
    file_result,    \* and its result: the list returned, the lines reported
    send_btn,       \* GUI: the Send button: "normal", "disabled", "destroyed"
    clicks,         \* GUI: how many times on_send has run
    workers,        \* GUI: the worker threads started, each with its position
    after_queue,    \* GUI: callbacks handed to root.after(0, ..), oldest first
    gui_log         \* GUI: what the interactive thread has shown, in order

dispatchVars == <<recipients, message, per_send_wait_seconds, initial_wait_seconds,
                  SELENIUM_AVAILABLE, WEBDRIVER_MANAGER_AVAILABLE, index, sends,
                  inFlight, results, outcomes, sleeps, session, login_waits,
                  stdout, raised>>
normVars == <<raw_number, country, normalized>>
fileVars == <<file_lines, file_result>>
guiVars == <<send_btn, clicks, workers, after_queue, gui_log>>
vars == <<task, pc, args, dispatchVars, normVars, fileVars, guiVars>>

\* The histories and outputs of a call that has not started.
Idle ==
    /\ index = 0
    /\ sends = <<>>
    /\ inFlight = {}
    /\ results = <<>>
    /\ outcomes = <<>>
    /\ sleeps = <<>>
    /\ session = "none"
    /\ login_waits = <<>>
    /\ stdout = <<>>
    /\ raised = "none"

NormIdle ==
    /\ raw_number = <<>>
    /\ country = "Turkey"
    /\ normalized = None

FileIdle ==
    /\ file_lines = <<>>
    /\ file_result = [recipients |-> <<>>, skipped |-> <<>>]

\* The window as launch_gui builds it: Send enabled, nothing started.
GuiIdle ==
    /\ send_btn = "normal"
    /\ clicks = 0
    /\ workers = <<>>
    /\ after_queue = <<>>
    /\ gui_log = <<>>

InitMain ==
    /\ task = "main"
    /\ pc = "main"
    /\ args \in Args
    /\ recipients = <<>>
    /\ message = None
    /\ per_send_wait_seconds = 0
    /\ initial_wait_seconds = 0
    /\ SELENIUM_AVAILABLE = TRUE
    /\ WEBDRIVER_MANAGER_AVAILABLE = TRUE
    /\ Idle
    /\ NormIdle
    /\ FileIdle
    /\ GuiIdle

InitToRecipients ==
    /\ task = "send_messages_to_recipients"
    /\ pc = "to_recipients"
    /\ args = NoArgs
    /\ recipients \in RecipientLists
    /\ message = <<"h", "i">>
    /\ per_send_wait_seconds \in Waits
    /\ initial_wait_seconds = 0
    /\ SELENIUM_AVAILABLE = TRUE
    /\ WEBDRIVER_MANAGER_AVAILABLE = TRUE
    /\ Idle
    /\ NormIdle
    /\ FileIdle
    /\ GuiIdle

\* WEBDRIVER_MANAGER_AVAILABLE is only bound when the selenium import worked.
InitSingleTab ==
    /\ task = "send_messages_single_tab"
    /\ pc = "single_tab"
    /\ args = NoArgs
    /\ recipients \in RecipientLists
    /\ message = <<"h", "i">>
    /\ per_send_wait_seconds = 0
    /\ initial_wait_seconds \in Waits
    /\ SELENIUM_AVAILABLE \in BOOLEAN
    /\ WEBDRIVER_MANAGER_AVAILABLE \in {b \in BOOLEAN : b => SELENIUM_AVAILABLE}
    /\ Idle
    /\ NormIdle
    /\ FileIdle
    /\ GuiIdle

Init == InitMain \/ InitToRecipients \/ InitSingleTab

\* ---------------------------------------------------------------------- main
\* A call that ends by raising: nothing else changes.
Raise(error) ==
    /\ raised' = error
    /\ pc' = "raised"

\* Lines 632-644: the GUI when there is no argument at all or --gui is given;
\* otherwise parser.error (SystemExit) unless --recipients has a value.
main_parse_args ==
    /\ pc = "main"
    /\ IF args = NoArgs \/ args.gui
       THEN pc' = "launch_gui" /\ raised' = raised
       ELSE IF ~Truthy(args.recipients)
       THEN Raise("SystemExit")
       ELSE pc' = "main_read_recipients" /\ raised' = raised
    /\ UNCHANGED <<task, args, recipients, message, per_send_wait_seconds,
                   initial_wait_seconds, SELENIUM_AVAILABLE,
                   WEBDRIVER_MANAGER_AVAILABLE, index, sends, inFlight, results,
                   outcomes, sleeps, session, login_waits, stdout, normVars, fileVars, guiVars>>

\* Lines 646-647 with 112-125: FileNotFoundError, or the accepted lines.
main_read_recipients ==
    /\ pc = "main_read_recipients"
    /\ \E exists \in BOOLEAN, lines \in RecipientFiles :
         IF ~exists
         THEN Raise("FileNotFoundError") /\ recipients' = recipients
         ELSE /\ recipients' = read_recipients_from_file(lines).recipients
              /\ pc' = "main_read_message"
              /\ raised' = raised
    /\ UNCHANGED <<task, args, message, per_send_wait_seconds,
                   initial_wait_seconds, SELENIUM_AVAILABLE,
                   WEBDRIVER_MANAGER_AVAILABLE, index, sends, inFlight, results,
                   outcomes, sleeps, session, login_waits, stdout, normVars, fileVars, guiVars>>

\* Lines 649-658: the message, then the call of send_messages_to_recipients
\* with per_send_wait_seconds = args.wait.
main_read_message ==
    /\ pc = "main_read_message"
    /\ \E exists \in BOOLEAN, text \in MessageFiles :
         LET message_file_path ==
                 IF Truthy(args.message_file) THEN args.message_file ELSE None
             r == read_message(args.message, message_file_path, exists, text)
         IN  IF r.raises # "none"
             THEN /\ Raise(r.raises)
                  /\ UNCHANGED <<message, per_send_wait_seconds>>
             ELSE /\ message' = r.value
                  /\ per_send_wait_seconds' = args.wait
                  /\ pc' = "to_recipients"
                  /\ raised' = raised
    /\ UNCHANGED <<task, args, recipients, initial_wait_seconds,
                   SELENIUM_AVAILABLE, WEBDRIVER_MANAGER_AVAILABLE, index, sends,
                   inFlight, results, outcomes, sleeps, session, login_waits,
                   stdout, normVars, fileVars, guiVars>>

main == main_parse_args \/ main_read_recipients \/ main_read_message

\* ------------------------------------------------ send_messages_to_recipients
\* What no dispatcher step changes.
Frame == UNCHANGED <<task, args, recipients, message, per_send_wait_seconds,
                     initial_wait_seconds, SELENIUM_AVAILABLE,
                     WEBDRIVER_MANAGER_AVAILABLE, normVars, fileVars, guiVars>>

\* Lines 169-173.
to_recipients_enter ==
    /\ pc = "to_recipients"
    /\ IF recipients = <<>>
       THEN stdout' = Append(stdout, "noop") /\ pc' = "returned"
       ELSE stdout' = Append(stdout, "starting") /\ pc' = "to_recipients_for"
    /\ UNCHANGED <<index, sends, inFlight, results, outcomes, sleeps, session,
                   login_waits, raised>>
    /\ Frame

\* Lines 174-177: the next recipient, and the call of sendwhatmsg_instantly.
to_recipients_send ==
    /\ pc = "to_recipients_for"
    /\ index < Len(recipients)
    /\ index' = index + 1
    /\ sends' = Append(sends, <<index + 1, recipients[index + 1]>>)
    /\ inFlight' = inFlight \cup {index + 1}
    /\ pc' = "to_recipients_sending"
    /\ UNCHANGED <<results, outcomes, sleeps, session, login_waits, stdout, raised>>
    /\ Frame

\* Line 190: the list is exhausted.
to_recipients_done ==
    /\ pc = "to_recipients_for"
    /\ index >= Len(recipients)
    /\ stdout' = Append(stdout, "done")
    /\ pc' = "returned"
    /\ UNCHANGED <<index, sends, inFlight, results, outcomes, sleeps, session,
                   login_waits, raised>>
    /\ Frame

\* Lines 177-183: the call returns.
to_recipients_sent ==
    /\ pc = "to_recipients_sending"
    /\ inFlight' = inFlight \ {index}
    /\ results' = Append(results, "ok")
    /\ outcomes' = Append(outcomes, "Sent")
    /\ pc' = "to_recipients_settle"
    /\ UNCHANGED <<index, sends, sleeps, session, login_waits, stdout, raised>>
    /\ Frame

\* The call raises and the exception leaves the function.
to_recipients_failed_Propagates ==
    /\ pc = "to_recipients_sending"
    /\ \E r \in SendFailures :
         /\ inFlight' = inFlight \ {index}
         /\ results' = Append(results, r)
         /\ Raise("Exception")
    /\ UNCHANGED <<index, sends, outcomes, sleeps, session, login_waits, stdout>>
    /\ Frame

\* Lines 186-187: the call raises; except Exception prints the failure.
to_recipients_failed ==
    /\ pc = "to_recipients_sending"
    /\ \E r \in SendFailures :
         /\ inFlight' = inFlight \ {index}
         /\ results' = Append(results, r)
         /\ outcomes' = Append(outcomes, "Failed")
         /\ pc' = "to_recipients_recover"
    /\ UNCHANGED <<index, sends, sleeps, session, login_waits, stdout, raised>>
    /\ Frame

\* The settle sleep left out.
to_recipients_settle_NoSleep ==
    /\ pc = "to_recipients_settle"
    /\ pc' = "to_recipients_for"
    /\ UNCHANGED <<index, sends, inFlight, results, outcomes, sleeps, session,
                   login_waits, stdout, raised>>
    /\ Frame

\* Line 185.
to_recipients_settle ==
    /\ pc = "to_recipients_settle"
    /\ sleeps' = Append(sleeps, <<index, SettleSeconds(per_send_wait_seconds)>>)
    /\ pc' = "to_recipients_for"
    /\ UNCHANGED <<index, sends, inFlight, results, outcomes, stdout, session,
                   login_waits, raised>>
    /\ Frame

\* After the recovery sleep the same recipient is tried again.
to_recipients_recover_Retry ==
    /\ pc = "to_recipients_recover"
    /\ sleeps' = Append(sleeps, <<index, RecoverSeconds>>)
    /\ index' = index - 1
    /\ pc' = "to_recipients_for"
    /\ UNCHANGED <<sends, inFlight, results, outcomes, stdout, session,
                   login_waits, raised>>
    /\ Frame

\* Line 189.
to_recipients_recover ==
    /\ pc = "to_recipients_recover"
    /\ sleeps' = Append(sleeps, <<index, RecoverSeconds>>)
    /\ pc' = "to_recipients_for"
    /\ UNCHANGED <<index, sends, inFlight, results, outcomes, stdout, session,
                   login_waits, raised>>
    /\ Frame

send_messages_to_recipients ==
    \/ to_recipients_enter
    \/ to_recipients_send
    \/ to_recipients_done
    \/ to_recipients_sent
    \/ to_recipients_failed
    \/ to_recipients_settle
    \/ to_recipients_recover

\* --------------------------------------------------- send_messages_single_tab
\* Lines 274-296: the Selenium guard, the empty list, the webdriver-manager
\* guard (the Chrome options between them change nothing that is kept).
single_tab_enter ==
    /\ pc = "single_tab"
    /\ IF ~SELENIUM_AVAILABLE
       THEN Raise("RuntimeError") /\ stdout' = stdout
       ELSE IF recipients = <<>>
       THEN stdout' = Append(stdout, "noop") /\ pc' = "returned" /\ raised' = raised
       ELSE IF ~WEBDRIVER_MANAGER_AVAILABLE
       THEN Raise("RuntimeError") /\ stdout' = stdout
       ELSE pc' = "single_tab_open" /\ stdout' = stdout /\ raised' = raised
    /\ UNCHANGED <<index, sends, inFlight, results, outcomes, sleeps, session,
                   login_waits>>
    /\ Frame

\* Lines 297-299: the browser session is there.
single_tab_open ==
    /\ pc = "single_tab_open"
    /\ session' = "open"
    /\ pc' = "single_tab_login"
    /\ UNCHANGED <<index, sends, inFlight, results, outcomes, sleeps, login_waits,
                   stdout, raised>>
    /\ Frame

\* The failure to open the session is swallowed and the loop entered.
single_tab_open_failed_Swallowed ==
    /\ pc = "single_tab_open"
    /\ session' = "failed"
    /\ stdout' = Append(stdout, "starting")
    /\ pc' = "single_tab_for"
    /\ UNCHANGED <<index, sends, inFlight, results, outcomes, sleeps, login_waits,
                   raised>>
    /\ Frame

\* Lines 297-299: the driver cannot be installed or started, or the page
\* cannot be loaded; nothing catches the exception.
single_tab_open_failed ==
    /\ pc = "single_tab_open"
    /\ session' = "failed"
    /\ Raise("WebDriverException")
    /\ UNCHANGED <<index, sends, inFlight, results, outcomes, sleeps, login_waits,
                   stdout>>
    /\ Frame

\* The loop entered without the wait for the login.
single_tab_login_ok_Skipped ==
    /\ pc = "single_tab_login"
    /\ stdout' = Append(stdout, "starting")
    /\ pc' = "single_tab_for"
    /\ UNCHANGED <<index, sends, inFlight, results, outcomes, sleeps, session,
                   login_waits, raised>>
    /\ Frame

\* Lines 301-305: the text box appears within the timeout.
single_tab_login_ok ==
    /\ pc = "single_tab_login"
    /\ login_waits' = Append(login_waits, <<LoginTimeout(initial_wait_seconds), "ok">>)
    /\ stdout' = Append(stdout, "starting")
    /\ pc' = "single_tab_for"
    /\ UNCHANGED <<index, sends, inFlight, results, outcomes, sleeps, session, raised>>
    /\ Frame

\* Lines 301-303: wait.until raises TimeoutException; nothing catches it.
single_tab_login_timeout ==
    /\ pc = "single_tab_login"
    /\ login_waits' =
           Append(login_waits, <<LoginTimeout(initial_wait_seconds), "timeout">>)
    /\ Raise("TimeoutException")
    /\ UNCHANGED <<index, sends, inFlight, results, outcomes, sleeps, session, stdout>>
    /\ Frame

\* Lines 306-311: the next recipient, and driver.get of its deep link.
single_tab_send ==
    /\ pc = "single_tab_for"
    /\ index < Len(recipients)
    /\ index' = index + 1
    /\ sends' = Append(sends, <<index + 1, recipients[index + 1]>>)
    /\ inFlight' = inFlight \cup {index + 1}
    /\ pc' = "single_tab_sending"
    /\ UNCHANGED <<results, outcomes, sleeps, session, login_waits, stdout, raised>>
    /\ Frame

\* Line 323.
single_tab_done ==
    /\ pc = "single_tab_for"
    /\ index >= Len(recipients)
    /\ stdout' = Append(stdout, "done")
    /\ pc' = "returned"
    /\ UNCHANGED <<index, sends, inFlight, results, outcomes, sleeps, session,
                   login_waits, raised>>
    /\ Frame

\* Lines 311-316: the page loads, the message box is found, ENTER is sent.
single_tab_sent ==
    /\ pc = "single_tab_sending"
    /\ inFlight' = inFlight \ {index}
    /\ results' = Append(results, "ok")
    /\ outcomes' = Append(outcomes, "Sent")
    /\ pc' = "single_tab_settle"
    /\ UNCHANGED <<index, sends, sleeps, session, login_waits, stdout, raised>>
    /\ Frame

\* Lines 319-320: one of those calls raises; except Exception prints the failure.
single_tab_failed ==
    /\ pc = "single_tab_sending"
    /\ \E r \in SendFailures :
         /\ inFlight' = inFlight \ {index}
         /\ results' = Append(results, r)
         /\ outcomes' = Append(outcomes, "Failed")
         /\ pc' = "single_tab_recover"
    /\ UNCHANGED <<index, sends, sleeps, session, login_waits, stdout, raised>>
    /\ Frame

\* Line 318.
single_tab_settle ==
    /\ pc = "single_tab_settle"
    /\ sleeps' = Append(sleeps, <<index, SingleTabSettleSeconds>>)
    /\ pc' = "single_tab_for"
    /\ UNCHANGED <<index, sends, inFlight, results, outcomes, stdout, session,
                   login_waits, raised>>
    /\ Frame

\* After the recovery sleep the failed send is forgotten and run again.
single_tab_recover_RetryInPlace ==
    /\ pc = "single_tab_recover"
    /\ results' = SubSeq(results, 1, Len(results) - 1)
    /\ outcomes' = SubSeq(outcomes, 1, Len(outcomes) - 1)
    /\ inFlight' = inFlight \cup {index}
    /\ pc' = "single_tab_sending"
    /\ UNCHANGED <<index, sends, sleeps, stdout, session, login_waits, raised>>
    /\ Frame

\* Line 321.
single_tab_recover ==
    /\ pc = "single_tab_recover"
    /\ sleeps' = Append(sleeps, <<index, SingleTabRecoverSeconds>>)
    /\ pc' = "single_tab_for"
    /\ UNCHANGED <<index, sends, inFlight, results, outcomes, stdout, session,
                   login_waits, raised>>
    /\ Frame

send_messages_single_tab ==
    \/ single_tab_enter
    \/ single_tab_open
    \/ single_tab_open_failed
    \/ single_tab_login_ok
    \/ single_tab_login_timeout
    \/ single_tab_send
    \/ single_tab_done
    \/ single_tab_sent
    \/ single_tab_failed
    \/ single_tab_settle
    \/ single_tab_recover

\* ------------------------------------------------------------ specifications
Next == main \/ send_messages_to_recipients \/ send_messages_single_tab

Spec == Init /\ [][Next]_vars

\* Every call and every sleep returns: a step that can be taken is taken.
FairSpec == Spec /\ WF_vars(Next)

\* normalize_number applied to one raw number and one country argument.
InitNorm ==
    /\ task = "normalize_number"
    /\ pc = "normalize_number"
    /\ args = NoArgs
    /\ recipients = <<>>
    /\ message = None
    /\ per_send_wait_seconds = 0
    /\ initial_wait_seconds = 0
    /\ SELENIUM_AVAILABLE = TRUE
    /\ WEBDRIVER_MANAGER_AVAILABLE = TRUE
    /\ Idle
    /\ raw_number \in RawNumbers \cup ExampleNumbers
    /\ country \in Countries
    /\ normalized = None
    /\ FileIdle
    /\ GuiIdle

call_normalize_number ==
    /\ pc = "normalize_number"
    /\ normalized' = normalize_number(raw_number, country)
    /\ pc' = "returned"
    /\ UNCHANGED <<task, args, dispatchVars, raw_number, country, fileVars, guiVars>>

NextNorm == call_normalize_number

SpecNorm == InitNorm /\ [][NextNorm]_vars

\* -------------------------------------------------------------------- claims
Dispatching == task \in {"main", "send_messages_to_recipients",
                         "send_messages_single_tab"}
SingleTab == task = "send_messages_single_tab"
Ended == pc \in {"returned", "raised", "launch_gui"}
N == Len(recipients)

\* C1: a send that raises at position k does not abort the loop: outcome k is
\* Failed, every send that returned is Sent, no exception leaves the call, and
\* a call that started sending ends only after all N recipients have been
\* attempted, with exactly N outcomes.
C1_FailureDoesNotAbort ==
    Dispatching =>
        /\ Len(outcomes) = Len(results)
        /\ \A k \in 1..Len(results) :
             outcomes[k] = (IF results[k] \in SendFailures THEN "Failed" ELSE "Sent")
        /\ (\E k \in 1..Len(results) : results[k] \in SendFailures) => raised = "none"
        /\ (Ended /\ sends # <<>>) =>
             /\ pc = "returned"
             /\ Len(sends) = N
             /\ Len(outcomes) = N

\* A batch of three whose first send raised, finished with three outcomes.
C1_Witness ==
    /\ task = "send_messages_to_recipients"
    /\ pc = "returned"
    /\ results = <<"fail", "ok", "ok">>
    /\ outcomes = <<"Failed", "Sent", "Sent">>

\* C2: no position is attempted twice in one call: the positions of the sends
\* are pairwise different, and the send after a failed one at position i comes
\* after the fixed recovery sleep and is for position i + 1.
C2_NoRetry ==
    Dispatching =>
        /\ \A i, j \in 1..Len(sends) : i # j => sends[i][1] # sends[j][1]
        /\ \A i \in 1..Len(results) :
             (results[i] \in SendFailures /\ Len(sends) > i) =>
                 /\ sends[i + 1][1] = sends[i][1] + 1
                 /\ sleeps[i] = <<sends[i][1],
                                  IF SingleTab THEN SingleTabRecoverSeconds
                                  ELSE RecoverSeconds>>

\* The second send failed and the third send is for position 3.
C2_Witness ==
    /\ task = "send_messages_single_tab"
    /\ Len(sends) = 3
    /\ results = <<"ok", "infra">>
    /\ sends[3][1] = 3

\* C3: sends happen in list order, one at a time: the i-th send is for
\* position i and recipients[i], at most one send is in progress, and when a
\* send starts every earlier send has ended and its sleep has completed.
C3_Sequential ==
    Dispatching =>
        /\ \A i \in 1..Len(sends) : sends[i] = <<i, recipients[i]>>
        /\ Cardinality(inFlight) <= 1
        /\ Len(results) >= Len(sends) - 1
        /\ Len(sleeps) >= Len(sends) - 1
        /\ inFlight # {} =>
             /\ inFlight = {Len(sends)}
             /\ Len(results) = Len(sends) - 1

\* The third send is in progress; the first two have ended and been slept on.
C3_Witness ==
    /\ task = "send_messages_to_recipients"
    /\ inFlight = {3}
    /\ Len(sleeps) = 2
    /\ recipients[1] # recipients[2]

\* The wait argument of the call: per_send_wait_seconds, or the single-tab
\* call's initial_wait_seconds.
WaitArgument ==
    IF SingleTab THEN initial_wait_seconds ELSE per_send_wait_seconds

\* The pacing rule: the larger of the minimum (20) and wait + margin (10).
IsPacedSettle(seconds, wait) ==
    /\ seconds >= 20
    /\ seconds >= wait + 10
    /\ seconds = 20 \/ seconds = wait + 10

\* C4 as stated: after every successful send, whichever strategy, the sleep is
\* max(20, wait + 10) seconds.
C4_Original ==
    Dispatching =>
        \A i \in 1..Len(sleeps) :
            results[i] = "ok" => IsPacedSettle(sleeps[i][2], WaitArgument)

\* C4 (amended): after a successful send, send_messages_to_recipients sleeps
\* max(20, per_send_wait_seconds + 10) seconds, and send_messages_single_tab
\* sleeps a fixed 3 seconds, before the next recipient.
C4_SettleAfterSuccess ==
    Dispatching =>
        /\ \A i \in 1..Len(sleeps) :
             results[i] = "ok" =>
                 IF SingleTab THEN sleeps[i][2] = 3
                 ELSE IsPacedSettle(sleeps[i][2], per_send_wait_seconds)
        /\ \A i \in 1..Len(sends) :
             (i > 1 /\ results[i - 1] = "ok") => Len(sleeps) >= i - 1

\* A successful pywhatkit send with a wait of 5 was followed by 20 seconds.
C4_Witness ==
    /\ task = "send_messages_to_recipients"
    /\ per_send_wait_seconds = 5
    /\ results = <<"ok">>
    /\ sleeps = << <<1, 20>> >>

\* The set-up of the single-tab session failed: a missing library, the driver
\* or the first page, or the login wait.
SetupFailed ==
    \/ session = "failed"
    \/ \E i \in 1..Len(login_waits) : login_waits[i][2] = "timeout"
    \/ SingleTab /\ recipients # <<>>
         /\ pc # "single_tab"
         /\ ~(SELENIUM_AVAILABLE /\ WEBDRIVER_MANAGER_AVAILABLE)

\* C5 as stated: an infrastructure error ends the batch wherever it happens:
\* it is raised, it is not recorded as Failed, and no send follows it.
C5_Original ==
    Dispatching =>
        /\ SetupFailed => (pc = "raised" /\ sends = <<>>)
        /\ \A i \in 1..Len(results) :
             results[i] = "infra" =>
                 /\ pc = "raised"
                 /\ Len(sends) = i
                 /\ Len(outcomes) < i

\* C5 (amended): an infrastructure error while send_messages_single_tab sets
\* its session up (Selenium or webdriver-manager missing, the driver or the
\* first page, the login wait) is raised to the caller and no recipient is
\* attempted or recorded; an infrastructure error raised by the send of one
\* recipient, under either strategy, is recorded as Failed for that recipient
\* and the loop goes on.
C5_InfrastructureErrors ==
    Dispatching =>
        /\ SetupFailed =>
             /\ pc = "raised"
             /\ raised \in {"RuntimeError", "WebDriverException", "TimeoutException"}
             /\ sends = <<>>
             /\ outcomes = <<>>
        /\ \A i \in 1..Len(outcomes) :
             results[i] = "infra" => (outcomes[i] = "Failed" /\ raised = "none")
        /\ (pc = "returned" /\ \E i \in 1..Len(results) : results[i] = "infra")
             => Len(sends) = N

\* The driver could not be started for a batch of two: raised, nobody attempted.
C5_Witness ==
    /\ SingleTab
    /\ Len(recipients) = 2
    /\ session = "failed"
    /\ pc = "raised"
    /\ raised = "WebDriverException"

\* C6: dispatching an empty list never raises, sends nothing, records nothing
\* and reports the no-op, under either strategy and whatever is installed.
C6_EmptyListIsNoOp ==
    (task \in {"send_messages_to_recipients", "send_messages_single_tab"}
        /\ recipients = <<>>) =>
        /\ raised = "none"
        /\ sends = <<>>
        /\ outcomes = <<>>
        /\ Ended => (pc = "returned" /\ stdout = <<"noop">>)

\* A value was given for the option (what the code tests: a non-empty string).
Supplied(option) == Truthy(option)

\* The command line asks for a command-line run (not the GUI) and is wrong:
\* both message sources, no message source, or no recipients source.
ConfigurationError ==
    /\ task = "main"
    /\ ~(args = NoArgs \/ args.gui)
    /\ \/ Supplied(args.message) /\ Supplied(args.message_file)
       \/ ~Supplied(args.message) /\ ~Supplied(args.message_file)
       \/ ~Supplied(args.recipients)

\* C7: a command-line run with a configuration error never reaches the
\* dispatcher: no send is started and the only way the run ends is with an
\* error; a per-recipient failure never ends a run with an error.
C7_ConfigurationErrorsFirst ==
    task = "main" =>
        /\ ConfigurationError =>
             /\ sends = <<>>
             /\ pc \in {"main", "main_read_recipients", "main_read_message", "raised"}
             /\ pc = "raised" =>
                    raised \in {"SystemExit", "ValueError", "FileNotFoundError"}
        /\ results # <<>> => raised = "none"

\* --message and --message-file both given, with a recipients file that was
\* read: ValueError, and nothing sent.
C7_Witness ==
    /\ task = "main"
    /\ Supplied(args.recipients)
    /\ Supplied(args.message)
    /\ Supplied(args.message_file)
    /\ pc = "raised"
    /\ raised = "ValueError"
    /\ sends = <<>>

\* C8: in single-tab mode the login wait is made at most once in a call, and
\* exactly once, successfully, in every call that reaches the loop: a send is
\* only ever started after that one wait has succeeded, and when the wait
\* fails the call raises with no recipient attempted.
C8_LoginWaitOnce ==
    SingleTab =>
        /\ Len(login_waits) <= 1
        /\ pc \in {"single_tab_for", "single_tab_sending", "single_tab_settle",
                   "single_tab_recover"} => Len(login_waits) = 1
        /\ (pc = "returned" /\ recipients # <<>>) => Len(login_waits) = 1
        /\ sends # <<>> => (Len(login_waits) = 1 /\ login_waits[1][2] = "ok")
        /\ \A i \in 1..Len(login_waits) :
             login_waits[i][2] = "timeout" => (pc = "raised" /\ sends = <<>>)

\* The first send of a single-tab batch is in progress after one login wait.
C8_Witness ==
    /\ SingleTab
    /\ pc = "single_tab_sending"
    /\ Len(sends) = 1
    /\ Len(login_waits) = 1
    /\ login_waits[1][2] = "ok"

\* A call has ended as the dispatcher may end: returned with every recipient
\* attempted, or stopped by an exception (none of which comes from the send
\* of one recipient), or handed over to the GUI.
C9_Done ==
    \/ /\ pc = "returned"
       /\ Len(sends) = N
       /\ Len(outcomes) = N
       /\ inFlight = {}
    \/ /\ pc = "raised"
       /\ sends = <<>>
       /\ SingleTab => raised \in {"RuntimeError", "WebDriverException",
                                   "TimeoutException"}
    \/ pc = "launch_gui"

\* C9: when every send and every sleep returns, a dispatch call terminates:
\* it reaches its end having attempted every recipient, or stops before the
\* first send on a fatal error.
C9_Terminates == <>C9_Done

\* A batch of three in which every send raised has returned.
C9_Witness ==
    /\ SingleTab
    /\ pc = "returned"
    /\ results = <<"fail", "fail", "infra">>
    /\ stdout = <<"starting", "done">>

\* The raw number is "+" followed by one or more ASCII digits and nothing else.
IsPlusDigits(s) ==
    /\ Len(s) >= 2
    /\ s[1] = "+"
    /\ \A i \in 2..Len(s) : s[i] \in AsciiDigits

\* C10 as stated: "+" and digits come back unchanged whatever the country
\* argument is.
C10_Original ==
    (pc = "returned" /\ task = "normalize_number" /\ IsPlusDigits(raw_number))
        => normalized = raw_number

\* C10 (amended): "+" and digits come back unchanged for every country
\* argument that names a country of the table.
C10_PlusDigitsUnchanged ==
    (pc = "returned" /\ task = "normalize_number" /\ IsPlusDigits(raw_number)
        /\ country \in DOMAIN COUNTRY_CODES)
        => normalized = raw_number

\* A number with Turkey's code came back unchanged under Japan's rules.
C10_Witness ==
    /\ task = "normalize_number"
    /\ pc = "returned"
    /\ country = "Japan"
    /\ raw_number = <<"+", "9", "0", "5">>
    /\ normalized = raw_number

\* The characters normalize_number removes: whitespace, hyphens, parentheses.
Separators == Whitespace \cup {"-", "(", ")"}
HasNoSeparator(s) == \A i \in 1..Len(s) : s[i] \notin Separators

\* A canonical number: "+", then digits only, at least one.
IsCanonical(s) ==
    /\ Len(s) >= 2
    /\ s[1] = "+"
    /\ \A i \in 2..Len(s) : s[i] \in DigitChars

\* C11: an input that starts with "+" (and holds no separator, so that it is
\* its own cleaned form) is returned unchanged if and only if what follows the
\* first "+" is digits only, at least one, and is rejected otherwise; so every
\* value normalize_number returns is "+" followed only by digits.
C11_PlusRemainderDigits ==
    (task = "normalize_number" /\ pc = "returned"
        /\ country \in DOMAIN COUNTRY_CODES) =>
        /\ (raw_number # <<>> /\ raw_number[1] = "+" /\ HasNoSeparator(raw_number))
             => normalized = (IF IsCanonical(raw_number) THEN raw_number ELSE None)
        /\ normalized # None => IsCanonical(normalized)

\* The place in the list of the first pattern that is a prefix of cleaned
\* (0 when there is none).
FirstMatch(cleaned, patterns) ==
    LET hits == {i \in 1..Len(patterns) : startswith(cleaned, patterns[i])}
    IN  IF hits = {} THEN 0
        ELSE CHOOSE i \in hits : \A j \in hits : i <= j

\* What C12 says a list of patterns and a dialing code make of a digit string.
FirstPatternResult(cleaned, code, patterns) ==
    LET k == FirstMatch(cleaned, patterns) IN
    IF k = 0 THEN None
    ELSE IF patterns[k] = Tail(code) THEN <<"+">> \o cleaned
    ELSE code \o SubSeq(cleaned, Len(patterns[k]) + 1, Len(cleaned))

TurkishMobile == <<"+", "9", "0", "5", "5", "5", "1", "2", "3", "4", "5", "6", "7">>

\* C12: for a known country and an input of digits only, the first listed
\* pattern that is a prefix decides the result (the list ["5", "55"] uses
\* "5" on 5551234567), and under Turkey's rules 5551234567, 05551234567 and
\* 905551234567 all become +905551234567.
C12_FirstPatternDecides ==
    /\ scan_patterns(<<"5", "5", "5", "1">>, <<"+", "9", "0">>,
                     << <<"5">>, <<"5", "5">> >>)
         = <<"+", "9", "0", "5", "5", "1">>
    /\ (task = "normalize_number" /\ pc = "returned"
          /\ country \in DOMAIN COUNTRY_CODES
          /\ isdigit(raw_number) /\ HasNoSeparator(raw_number)) =>
          /\ normalized = FirstPatternResult(raw_number, COUNTRY_CODES[country].code,
                                             COUNTRY_CODES[country].patterns)
          /\ (country = "Turkey" /\ raw_number \in ExampleNumbers)
               => normalized = TurkishMobile

\* The part of C12 that the code keeps: the first listed pattern decides.
C12_Rule ==
    (task = "normalize_number" /\ pc = "returned"
        /\ country \in DOMAIN COUNTRY_CODES
        /\ isdigit(raw_number) /\ HasNoSeparator(raw_number)) =>
        normalized = FirstPatternResult(raw_number, COUNTRY_CODES[country].code,
                                        COUNTRY_CODES[country].patterns)

\* C13: normalize_number returns None for every input holding a character
\* that is not a digit, not "+" and not a separator, for every country; and
\* for the empty input, and for every country name that is not in the table.
C13_Rejects ==
    (task = "normalize_number" /\ pc = "returned") =>
        /\ (\E i \in 1..Len(raw_number) :
                raw_number[i] \notin DigitChars \cup {"+"} \cup Separators)
             => normalized = None
        /\ raw_number = <<>> => normalized = None
        /\ country \notin DOMAIN COUNTRY_CODES => normalized = None

\* A Turkish-looking number with a letter in it was rejected.
C13_Witness ==
    /\ task = "normalize_number"
    /\ pc = "returned"
    /\ country = "Turkey"
    /\ raw_number = <<"0", "5", "a", "5">>
    /\ normalized = None

\* s without the characters of the set S.
Without(s, S) == SelectSeq(s, LAMBDA c : c \notin S)

\* C15 as stated: the result is that of the input with all whitespace,
\* hyphens and parentheses removed.
C15_Original ==
    (task = "normalize_number" /\ pc = "returned"
        /\ country \in DOMAIN COUNTRY_CODES) =>
        normalized = normalize_number(Without(raw_number, Separators), country)

\* C15 (amended): for an input whose only whitespace is the space character,
\* the result is that of the input with all spaces, hyphens and parentheses
\* removed.
C15_SpacesHyphensParentheses ==
    (task = "normalize_number" /\ pc = "returned"
        /\ country \in DOMAIN COUNTRY_CODES
        /\ \A i \in 1..Len(raw_number) : raw_number[i] \notin Whitespace \ {" "}) =>
        normalized = normalize_number(Without(raw_number, {" ", "-", "(", ")"}),
                                      country)

\* "5 -5" gave what "55" gives under Turkey's rules.
C15_Witness ==
    /\ task = "normalize_number"
    /\ pc = "returned"
    /\ country = "Turkey"
    /\ raw_number = <<"5", " ", "-", "5">>
    /\ normalized = <<"+", "9", "0", "5">>

\* --------------------------------------------------- read_recipients_from_file
\* Most lines of a recipients file.
MaxLines == 3

\* Lines as iterating the file yields them: a number, a number between
\* spaces with a second "+" in it, a comment, an indented comment, a blank
\* line, a word, a lone "+", and a number on a last line with no newline.
FileLines ==
    { <<"+", "1", "2", "\n">>,
      <<" ", "+", "1", "+", "2", " ", "\n">>,
      <<"#", "c", "\n">>,
      <<" ", "#", "\n">>,
      <<"\n">>,
      <<"a", "b", "\n">>,
      <<"+", "\n">>,
      <<"+", "9", "0", "5">> }

ExampleFile ==
    << <<"#", " ", "c", "o", "m", "m", "e", "n", "t", "\n">>,
       <<"\n">>,
       <<"+", "1", "2", "3", "4", "5", "\n">>,
       <<"n", "o", "t", "a", "n", "u", "m", "b", "e", "r", "\n">>,
       <<"+", "1", "a", "2", "b", "3", "c", "\n">> >>

Files == SeqsUpTo(FileLines, MaxLines) \cup {ExampleFile}

InitFile ==
    /\ task = "read_recipients_from_file"
    /\ pc = "read_recipients_from_file"
    /\ args = NoArgs
    /\ recipients = <<>>
    /\ message = None
    /\ per_send_wait_seconds = 0
    /\ initial_wait_seconds = 0
    /\ SELENIUM_AVAILABLE = TRUE
    /\ WEBDRIVER_MANAGER_AVAILABLE = TRUE
    /\ Idle
    /\ NormIdle
    /\ file_lines \in Files
    /\ file_result = [recipients |-> <<>>, skipped |-> <<>>]
    /\ GuiIdle

\* Lines 112-113: the file is not there.
read_recipients_file_missing ==
    /\ pc = "read_recipients_from_file"
    /\ Raise("FileNotFoundError")
    /\ UNCHANGED <<task, args, recipients, message, per_send_wait_seconds,
                   initial_wait_seconds, SELENIUM_AVAILABLE,
                   WEBDRIVER_MANAGER_AVAILABLE, index, sends, inFlight, results,
                   outcomes, sleeps, session, login_waits, stdout, normVars,
                   fileVars, guiVars>>

\* Lines 115-125: the file is read and the list returned.
call_read_recipients_from_file ==
    /\ pc = "read_recipients_from_file"
    /\ file_result' = read_recipients_from_file(file_lines)
    /\ pc' = "returned"
    /\ UNCHANGED <<task, args, dispatchVars, normVars, file_lines, guiVars>>

NextFile == read_recipients_file_missing \/ call_read_recipients_from_file

SpecFile == InitFile /\ [][NextFile]_vars

\* The lines of the file, trimmed.
Trimmed(lines) == [i \in 1..Len(lines) |-> strip(lines[i])]

IsBlankOrComment(line) == line = <<>> \/ line[1] = "#"

\* C14: the list returned is the lines, trimmed, in file order and with
\* duplicates, that are not blank, not comments, and are "+" followed only by
\* digits; every other line that is not blank or a comment is reported exactly
\* once, and blank and comment lines are not reported; reading never raises
\* over a line.  The example file gives ["+12345"] and two reports.
C14_StrictFilter ==
    (task = "read_recipients_from_file" /\ pc = "returned") =>
        /\ raised = "none"
        /\ file_result.recipients =
               SelectSeq(Trimmed(file_lines),
                         LAMBDA l : ~IsBlankOrComment(l) /\ IsCanonical(l))
        /\ file_result.skipped =
               SelectSeq(Trimmed(file_lines),
                         LAMBDA l : ~IsBlankOrComment(l) /\ ~IsCanonical(l))
        /\ file_lines = ExampleFile =>
               /\ file_result.recipients = << <<"+", "1", "2", "3", "4", "5">> >>
               /\ Len(file_result.skipped) = 2

\* The part of C14 that the code keeps, with the test the code makes: a
\* leading "+" and, all "+" removed, digits only.
PassesBasicValidation(l) ==
    /\ l # <<>>
    /\ l[1] = "+"
    /\ \A i \in 1..Len(l) : l[i] \in DigitChars \cup {"+"}
    /\ \E i \in 1..Len(l) : l[i] \in DigitChars

C14_BasicFilter ==
    (task = "read_recipients_from_file" /\ pc = "returned") =>
        /\ file_result.recipients =
               SelectSeq(Trimmed(file_lines),
                         LAMBDA l : ~IsBlankOrComment(l) /\ PassesBasicValidation(l))
        /\ file_result.skipped =
               SelectSeq(Trimmed(file_lines),
                         LAMBDA l : ~IsBlankOrComment(l) /\ ~PassesBasicValidation(l))
        /\ file_lines = ExampleFile =>
               /\ file_result.recipients = << <<"+", "1", "2", "3", "4", "5">> >>
               /\ Len(file_result.skipped) = 2

\* ------------------------------------------------------------------------ GUI
\* Most runs of on_send in one session of the window.
MaxClicks == 2

\* The window of launch_gui: the interactive thread runs on_send and the
\* callbacks given to root.after, one at a time; every worker thread runs
\* worker().  Of the dispatcher a worker calls (the steps of Spec) a worker
\* keeps its list's length n and the number of recipients done, index.
InitGui ==
    /\ task = "launch_gui"
    /\ pc = "mainloop"
    /\ args = NoArgs
    /\ recipients = <<>>
    /\ message = None
    /\ per_send_wait_seconds = 0
    /\ initial_wait_seconds = 0
    /\ SELENIUM_AVAILABLE \in BOOLEAN
    /\ WEBDRIVER_MANAGER_AVAILABLE \in {b \in BOOLEAN : b => SELENIUM_AVAILABLE}
    /\ Idle
    /\ NormIdle
    /\ FileIdle
    /\ GuiIdle

GuiFrame == UNCHANGED <<task, pc, args, dispatchVars, normVars, fileVars>>

\* Tk runs the button's command only while the button is enabled and the
\* window exists.
CanClick == send_btn = "normal" /\ clicks < MaxClicks

\* on_send with the button left enabled.
on_send_NoDisable ==
    /\ CanClick
    /\ clicks' = clicks + 1
    /\ \E message_value_empty \in BOOLEAN :
         IF message_value_empty
         THEN /\ gui_log' = Append(gui_log, <<"showerror", 0>>)
              /\ UNCHANGED <<send_btn, workers, after_queue>>
         ELSE /\ gui_log' = Append(gui_log, <<"log_reading", 0>>)
              /\ workers' = Append(workers, [pc |-> "read", single |-> FALSE,
                                             n |-> 0, index |-> 0])
              /\ UNCHANGED <<send_btn, after_queue>>
    /\ GuiFrame

\* Lines 502-563: no message, an error box; otherwise the button is disabled,
\* a line is logged and a worker thread is started.
on_send ==
    /\ CanClick
    /\ clicks' = clicks + 1
    /\ \E message_value_empty \in BOOLEAN :
         IF message_value_empty
         THEN /\ gui_log' = Append(gui_log, <<"showerror", 0>>)
              /\ UNCHANGED <<send_btn, workers, after_queue>>
         ELSE /\ send_btn' = "disabled"
              /\ gui_log' = Append(gui_log, <<"log_reading", 0>>)
              /\ workers' = Append(workers, [pc |-> "read", single |-> FALSE,
                                             n |-> 0, index |-> 0])
              /\ UNCHANGED after_queue
    /\ GuiFrame

\* The main loop runs the oldest root.after callback: the button is enabled
\* again, or a line or an error box is shown.
tk_after_callback ==
    /\ send_btn # "destroyed"
    /\ after_queue # <<>>
    /\ after_queue' = Tail(after_queue)
    /\ gui_log' = Append(gui_log, Head(after_queue))
    /\ send_btn' = (IF Head(after_queue)[1] = "enable_btn" THEN "normal" ELSE send_btn)
    /\ UNCHANGED <<clicks, workers>>
    /\ GuiFrame

\* Line 571: Quit destroys the window; the main loop ends, launch_gui and
\* main return and the daemon workers end with the process.
quit ==
    /\ send_btn # "destroyed"
    /\ send_btn' = "destroyed"
    /\ UNCHANGED <<clicks, workers, after_queue, gui_log>>
    /\ GuiFrame

WorkerAt(w, where) ==
    /\ send_btn # "destroyed"
    /\ w \in 1..Len(workers)
    /\ workers[w].pc = where

\* Lines 519-535: the numbers of the preview or of the file; no path is a
\* ValueError, no file a FileNotFoundError, an empty list a log line and return.
worker_read_recipients(w) ==
    /\ WorkerAt(w, "read")
    /\ \/ \E n \in 1..MaxRecipients :
            /\ workers' = [workers EXCEPT ![w].pc = "call", ![w].n = n]
            /\ UNCHANGED after_queue
       \/ /\ workers' = [workers EXCEPT ![w].pc = "finally"]
          /\ after_queue' = Append(after_queue, <<"log_no_valid", w>>)
       \/ \E handler \in {"except_fnf", "except"} :
            /\ workers' = [workers EXCEPT ![w].pc = handler]
            /\ UNCHANGED after_queue
    /\ UNCHANGED <<send_btn, clicks, gui_log>>
    /\ GuiFrame

\* Lines 537-554: the dispatcher chosen by the single-tab box; RuntimeError
\* when that is Selenium and Selenium is not there.
worker_call_dispatch(w) ==
    /\ WorkerAt(w, "call")
    /\ \E single_tab_var \in BOOLEAN :
         IF single_tab_var /\ ~SELENIUM_AVAILABLE
         THEN workers' = [workers EXCEPT ![w].pc = "except"]
         ELSE workers' = [workers EXCEPT ![w].pc = "dispatching",
                                         ![w].single = single_tab_var]
    /\ UNCHANGED <<send_btn, clicks, after_queue, gui_log>>
    /\ GuiFrame

\* Inside the dispatcher: one more recipient sent or failed.
worker_dispatch_send(w) ==
    /\ WorkerAt(w, "dispatching")
    /\ workers[w].index < workers[w].n
    /\ workers' = [workers EXCEPT ![w].index = @ + 1]
    /\ UNCHANGED <<send_btn, clicks, after_queue, gui_log>>
    /\ GuiFrame

\* Inside send_messages_single_tab: the session cannot be set up (lines
\* 293-303) and the exception reaches the worker.
worker_dispatch_raises(w) ==
    /\ WorkerAt(w, "dispatching")
    /\ workers[w].single
    /\ workers[w].index = 0
    /\ workers' = [workers EXCEPT ![w].pc = "except"]
    /\ UNCHANGED <<send_btn, clicks, after_queue, gui_log>>
    /\ GuiFrame

\* Line 555: the dispatcher has returned.
worker_dispatch_returns(w) ==
    /\ WorkerAt(w, "dispatching")
    /\ workers[w].index = workers[w].n
    /\ workers' = [workers EXCEPT ![w].pc = "finally"]
    /\ after_queue' = Append(after_queue, <<"log_finished", w>>)
    /\ UNCHANGED <<send_btn, clicks, gui_log>>
    /\ GuiFrame

\* Lines 556-559: either handler asks for an error box.
worker_except(w) ==
    /\ \/ WorkerAt(w, "except")
       \/ WorkerAt(w, "except_fnf")
    /\ workers' = [workers EXCEPT ![w].pc = "finally"]
    /\ after_queue' = Append(after_queue, <<"showerror", w>>)
    /\ UNCHANGED <<send_btn, clicks, gui_log>>
    /\ GuiFrame

\* Lines 560-561: finally asks for the button to be enabled.
worker_finally(w) ==
    /\ WorkerAt(w, "finally")
    /\ workers' = [workers EXCEPT ![w].pc = "returning"]
    /\ after_queue' = Append(after_queue, <<"enable_btn", w>>)
    /\ UNCHANGED <<send_btn, clicks, gui_log>>
    /\ GuiFrame

\* worker() returns and the thread ends.
worker_exit(w) ==
    /\ WorkerAt(w, "returning")
    /\ workers' = [workers EXCEPT ![w].pc = "exited"]
    /\ UNCHANGED <<send_btn, clicks, after_queue, gui_log>>
    /\ GuiFrame

worker ==
    \E w \in 1..MaxClicks :
        \/ worker_read_recipients(w)
        \/ worker_call_dispatch(w)
        \/ worker_dispatch_send(w)
        \/ worker_dispatch_raises(w)
        \/ worker_dispatch_returns(w)
        \/ worker_except(w)
        \/ worker_finally(w)
        \/ worker_exit(w)

NextGui == on_send \/ tk_after_callback \/ quit \/ worker

SpecGui == InitGui /\ [][NextGui]_vars

\* The workers that have not yet run their finally clause: inside worker()'s
\* try statement, the dispatch call included.
Running ==
    {w \in 1..Len(workers) : workers[w].pc \notin {"returning", "exited"}}

\* How often the callback <<kind, w>> has been asked for (run or still queued).
RECURSIVE Count(_, _)
Count(s, x) ==
    IF s = <<>> THEN 0
    ELSE (IF Head(s) = x THEN 1 ELSE 0) + Count(Tail(s), x)

\* C16: in the GUI at most one worker is inside its dispatch at any time: while
\* a worker has not left it the Send button is not enabled (it was disabled
\* before the worker was started), and every worker that leaves, on whichever
\* path, asks exactly once for the button to be enabled, and only then.
C16_OneWorker ==
    task = "launch_gui" =>
        /\ Cardinality(Running) <= 1
        /\ Running # {} => send_btn # "normal"
        /\ \A w \in 1..Len(workers) :
             Count(after_queue \o gui_log, <<"enable_btn", w>>)
                 = (IF w \in Running THEN 0 ELSE 1)
        /\ send_btn = "normal" =>
             \A w \in 1..Len(workers) : Count(gui_log, <<"enable_btn", w>>) = 1

\* A second worker is dispatching after the first one, which found no file,
\* has left and the button was enabled again.
C16_Witness ==
    /\ task = "launch_gui"
    /\ Len(workers) = 2
    /\ workers[1].pc = "exited"
    /\ Count(gui_log, <<"showerror", 1>>) = 1
    /\ workers[2].pc = "dispatching"
    /\ workers[2].index = 1
    /\ send_btn = "disabled"
====
